---- MODULE Spec2Model ----
(***************************************************************************)
(* State-machine model of the per-sample signal generators and shapers of  *)
(* LabSound's extended nodes: the analogue ADSR envelope, the Moog ladder  *)
(* filter (transistor-ladder model A and discretized model B), the         *)
(* wavetable oscillator node and the PolyBLEP oscillator node.             *)
(*                                                                         *)
(* Real numbers are fixed point: a value v stands for v / One.  Products   *)
(* are floored (Mul).  Times are in eighths of a second and sample rates   *)
(* are scaled down to a few samples per second, so that every envelope     *)
(* segment lasts a handful of samples.                                     *)
(***************************************************************************)
EXTENDS Integers, Sequences, FiniteSets, TLC

VARIABLES
    sampleRate,     \* r.context()->sampleRate(), fixed for the context's life
    initialized,    \* AudioNode::isInitialized()
    connected,      \* input(0)->isConnected()
    inChannels,     \* input(0)->numberOfChannels(r)
    outChannels,    \* output(0)->numberOfChannels()
    adsr,           \* ADSRNodeImpl's fields
    adsrSet,        \* the AudioSettings and the gate AudioParam of the ADSR node
    last,           \* the last sample the ADSR loop processed
    nChanges,       \* number of setting changes made so far
    call,           \* the last process or reset call and what it did
    moog,           \* MoogFilterNode's fields
    moogSet,        \* the AudioParams of the Moog filter node
    wt,             \* WaveTableOscillatorNode's fields
    wtSet,          \* the AudioSettings of the wavetable oscillator node
    blep,           \* PolyBlepImpl's fields
    tab             \* the spectrum handed to fillTables / fillTables2 and what they built

nodeVars == <<sampleRate, initialized, connected, inChannels, outChannels>>
adsrVars == <<adsr, adsrSet, last>>
moogVars == <<moog, moogSet>>
wtVars == <<wt, wtSet>>
utilVars == <<blep, tab>>
vars == <<nodeVars, adsrVars, moogVars, wtVars, utilVars, nChanges, call>>

----------------------------------------------------------------------------
(* Bounds of the model *)

\* largest bufferSize / frame count handed to a process call
MaxBufferSize == 2
\* how many setting changes a behaviour makes
MaxSettingChanges == 1

(* Fixed point *)

\* the double 1.0
One == 10000

Mul(a, b) == (a * b) \div One

\* context sample rates: time is scaled down by 6000, so that 48000 and
\* 96000 samples per second become 8 and 16
SampleRates == {48000 \div 6000, 96000 \div 6000}
\* setting values for attack/decay/release time, in eighths of a second
Times8 == {2}
\* setting values for the sustain level
Levels == {0, 5000, One}
\* values a sample-accurate gate sample can take before thresholding
GateValues == {-1, 1}

----------------------------------------------------------------------------
(* ADSRNodeImpl *)

env_idle == 0
env_attack == 1
env_decay == 2
env_sustain == 3
env_release == 4

RECURSIVE BitAnd(_, _)
BitAnd(a, b) ==
    IF a = 0 \/ b = 0 THEN 0
    ELSE (IF a % 2 = 1 /\ b % 2 = 1 THEN 1 ELSE 0) + 2 * BitAnd(a \div 2, b \div 2)

RECURSIVE BitOr(_, _)
BitOr(a, b) ==
    IF a = 0 THEN b
    ELSE IF b = 0 THEN a
    ELSE (IF a % 2 = 1 \/ b % 2 = 1 THEN 1 ELSE 0) + 2 * BitOr(a \div 2, b \div 2)

\* the two target ratios initialize() passes: 0.3 and 0.001
TargetRatioA == 3000
TargetRatioDR == 10
\* the release rate forced in mode ADS: 99999 samples, scaled like the
\* sample rates
AdsReleaseRate == 99999 \div 6000

\* One * exp(-log((1 + targetRatio) / targetRatio) / rate), rate = rate8 / 8
\* samples, rounded to the nearest unit, for the rates the model reaches:
\* the times of the settings alone and multiplied by the sample rates.
CoefTableA ==
    (1 :> 0) @@ (2 :> 28) @@ (8 :> 2308) @@ (9 :> 2716) @@ (16 :> 4804)
    @@ (32 :> 6931) @@ (72 :> 8497) @@ (128 :> 9124) @@ (144 :> 9218)
CoefTableDR ==
    (1 :> 0) @@ (2 :> 0) @@ (8 :> 10) @@ (9 :> 22) @@ (16 :> 316)
    @@ (32 :> 1778) @@ (72 :> 4641) @@ (128 :> 6493) @@ (144 :> 6813)

\* rate8 is the rate in eighths of a sample
calcCoef(rate8, targetRatio) ==
    IF rate8 <= 0 THEN 0
    ELSE IF targetRatio = TargetRatioA THEN CoefTableA[rate8]
    ELSE CoefTableDR[rate8]

\* setTargetRatioA: the rate is the attack time itself, in seconds
setTargetRatioA(s, set, targetRatio) ==
    LET c == calcCoef(set.attackTime, targetRatio)
    IN [s EXCEPT !.targetRatioA = targetRatio,
                 !.attackCoef = c,
                 !.attackBase = Mul(One + targetRatio, One - c)]

setTargetRatioDR(s, set, targetRatio) ==
    LET dc == calcCoef(set.decayTime, targetRatio)
        rc == calcCoef(set.releaseTime, targetRatio)
    IN [s EXCEPT !.targetRatioDR = targetRatio,
                 !.decayCoef = dc,
                 !.releaseCoef = rc,
                 !.decayBase = Mul(set.sustainLevel - targetRatio, One - dc),
                 !.releaseBase = Mul(-targetRatio, One - rc)]

\* the settings the node's constructor writes before initialize()
ConstructorSettings ==
    [attackTime |-> 9, decayTime |-> 1, releaseTime |-> 1,
     sustainLevel |-> 5000, gate |-> 0]

\* ADSRNodeImpl(sample_rate), setMode(adsrMode), then initialize()
ADSRNodeImpl(sr, m) ==
    LET s0 == [state |-> env_idle, output |-> 0, isReleaseCompleted |-> TRUE,
               cached_sample_rate |-> sr, mode |-> m,
               attackCoef |-> 0, attackBase |-> 0,
               decayCoef |-> 0, decayBase |-> 0,
               releaseCoef |-> 0, releaseBase |-> 0,
               targetRatioA |-> 0, targetRatioDR |-> 0,
               gateArrayCapacity |-> 0]
    IN setTargetRatioDR(setTargetRatioA(s0, ConstructorSettings, TargetRatioA),
                        ConstructorSettings, TargetRatioDR)

\* processEnv with a release clamp that forgets isReleaseCompleted
processEnvNoFlag(s, sustainLevel) ==
    IF s.state = env_release
    THEN LET v == s.releaseBase + Mul(s.output, s.releaseCoef)
         IN IF v <= 0 THEN [s EXCEPT !.output = 0, !.state = env_idle]
            ELSE [s EXCEPT !.output = v]
    ELSE IF s.state = env_attack
    THEN LET v == s.attackBase + Mul(s.output, s.attackCoef)
         IN IF v >= One THEN [s EXCEPT !.output = One, !.state = env_decay]
            ELSE [s EXCEPT !.output = v]
    ELSE IF s.state = env_decay
    THEN LET v == s.decayBase + Mul(s.output, s.decayCoef)
         IN IF v <= sustainLevel
            THEN [s EXCEPT !.output = sustainLevel, !.state = env_sustain]
            ELSE [s EXCEPT !.output = v]
    ELSE s

\* processEnv with a release clamp that holds the output at 0 in release
processEnvNoIdle(s, sustainLevel) ==
    IF s.state = env_release
    THEN LET v == s.releaseBase + Mul(s.output, s.releaseCoef)
         IN IF v <= 0 THEN [s EXCEPT !.output = 0]
            ELSE [s EXCEPT !.output = v]
    ELSE processEnvNoFlag(s, sustainLevel)

\* the value the recurrence of the current phase computes, before clamping
Recurrence(s) ==
    CASE s.state = env_attack  -> s.attackBase + Mul(s.output, s.attackCoef)
      [] s.state = env_decay   -> s.decayBase + Mul(s.output, s.decayCoef)
      [] s.state = env_release -> s.releaseBase + Mul(s.output, s.releaseCoef)
      [] OTHER -> s.output

\* processEnv with an attack clamp that changes the phase and keeps the
\* recurrence value as the output
processEnvUnclampedAttack(s, sustainLevel) ==
    LET v == Recurrence(s)
    IN CASE s.state = env_attack ->
              IF v >= One
              THEN [s EXCEPT !.output = v, !.state = env_decay]
              ELSE [s EXCEPT !.output = v]
         [] s.state = env_decay ->
              IF v <= sustainLevel
              THEN [s EXCEPT !.output = sustainLevel, !.state = env_sustain]
              ELSE [s EXCEPT !.output = v]
         [] s.state = env_release ->
              IF v <= 0
              THEN [s EXCEPT !.output = 0, !.state = env_idle,
                             !.isReleaseCompleted = TRUE]
              ELSE [s EXCEPT !.output = v]
         [] OTHER -> s

\* processEnv with a decay clamp that changes the phase and keeps the
\* recurrence value as the output
processEnvUnclampedDecay(s, sustainLevel) ==
    LET v == Recurrence(s)
    IN CASE s.state = env_attack ->
              IF v >= One
              THEN [s EXCEPT !.output = One, !.state = env_decay]
              ELSE [s EXCEPT !.output = v]
         [] s.state = env_decay ->
              IF v <= sustainLevel
              THEN [s EXCEPT !.output = v, !.state = env_sustain]
              ELSE [s EXCEPT !.output = v]
         [] s.state = env_release ->
              IF v <= 0
              THEN [s EXCEPT !.output = 0, !.state = env_idle,
                             !.isReleaseCompleted = TRUE]
              ELSE [s EXCEPT !.output = v]
         [] OTHER -> s

\* processEnv with a sustain phase that follows the sustainLevel setting
processEnvSustainFollows(s, sustainLevel) ==
    LET v == Recurrence(s)
    IN CASE s.state = env_attack ->
              IF v >= One
              THEN [s EXCEPT !.output = One, !.state = env_decay]
              ELSE [s EXCEPT !.output = v]
         [] s.state = env_decay ->
              IF v <= sustainLevel
              THEN [s EXCEPT !.output = sustainLevel, !.state = env_sustain]
              ELSE [s EXCEPT !.output = v]
         [] s.state = env_sustain -> [s EXCEPT !.output = sustainLevel]
         [] s.state = env_release ->
              IF v <= 0
              THEN [s EXCEPT !.output = 0, !.state = env_idle,
                             !.isReleaseCompleted = TRUE]
              ELSE [s EXCEPT !.output = v]
         [] OTHER -> s

\* processEnv with a release clamp that changes the phase and keeps the
\* recurrence value as the output
processEnvUnclampedRelease(s, sustainLevel) ==
    LET v == Recurrence(s)
    IN CASE s.state = env_attack ->
              IF v >= One
              THEN [s EXCEPT !.output = One, !.state = env_decay]
              ELSE [s EXCEPT !.output = v]
         [] s.state = env_decay ->
              IF v <= sustainLevel
              THEN [s EXCEPT !.output = sustainLevel, !.state = env_sustain]
              ELSE [s EXCEPT !.output = v]
         [] s.state = env_release ->
              IF v <= 0
              THEN [s EXCEPT !.output = v, !.state = env_idle,
                             !.isReleaseCompleted = TRUE]
              ELSE [s EXCEPT !.output = v]
         [] OTHER -> s

\* processEnv with an attack clamp that enters the sustain phase at once
processEnvSkipDecay(s, sustainLevel) ==
    LET v == Recurrence(s)
    IN CASE s.state = env_attack ->
              IF v >= One
              THEN [s EXCEPT !.output = sustainLevel, !.state = env_sustain]
              ELSE [s EXCEPT !.output = v]
         [] s.state = env_decay ->
              IF v <= sustainLevel
              THEN [s EXCEPT !.output = sustainLevel, !.state = env_sustain]
              ELSE [s EXCEPT !.output = v]
         [] s.state = env_release ->
              IF v <= 0
              THEN [s EXCEPT !.output = 0, !.state = env_idle,
                             !.isReleaseCompleted = TRUE]
              ELSE [s EXCEPT !.output = v]
         [] OTHER -> s

processEnv(s, sustainLevel) ==
    LET v == Recurrence(s)
    IN CASE s.state = env_attack ->
              IF v >= One
              THEN [s EXCEPT !.output = One, !.state = env_decay]
              ELSE [s EXCEPT !.output = v]
         [] s.state = env_decay ->
              IF v <= sustainLevel
              THEN [s EXCEPT !.output = sustainLevel, !.state = env_sustain]
              ELSE [s EXCEPT !.output = v]
         [] s.state = env_release ->
              IF v <= 0
              THEN [s EXCEPT !.output = 0, !.state = env_idle,
                             !.isReleaseCompleted = TRUE]
              ELSE [s EXCEPT !.output = v]
         [] OTHER -> s

\* the gate test without the phase mask: every high sample retriggers
GateStepRetrigger(s, g) ==
    IF g > 0
    THEN [s EXCEPT !.output = 0, !.state = env_attack, !.isReleaseCompleted = FALSE]
    ELSE IF g <= 0 /\ s.state # env_idle
    THEN [s EXCEPT !.state = env_release]
    ELSE s

\* the gate test releasing from the sustain phase only
GateStepSustainOnly(s, g) ==
    IF g > 0 /\ (s.state = env_idle \/ s.state = env_release)
    THEN [s EXCEPT !.output = 0, !.state = env_attack, !.isReleaseCompleted = FALSE]
    ELSE IF g <= 0 /\ s.state = env_sustain
    THEN [s EXCEPT !.state = env_release]
    ELSE s

\* the gate test entering attack without clearing isReleaseCompleted
GateStepKeepsFlag(s, g) ==
    IF g > 0 /\ BitAnd(s.state, BitOr(env_attack, BitOr(env_decay, env_sustain))) = 0
    THEN [s EXCEPT !.output = 0, !.state = env_attack]
    ELSE IF g <= 0 /\ s.state # env_idle
    THEN [s EXCEPT !.state = env_release]
    ELSE s

\* the gate test at the top of the per-sample loop
GateStep(s, g) ==
    IF g > 0 /\ BitAnd(s.state, BitOr(env_attack, BitOr(env_decay, env_sustain))) = 0
    THEN [s EXCEPT !.output = 0, !.state = env_attack, !.isReleaseCompleted = FALSE]
    ELSE IF g <= 0 /\ s.state # env_idle
    THEN [s EXCEPT !.state = env_release]
    ELSE s

\* _gateArray[i] = _gateArray[i] > 0 ? 1.f : 0.f
Threshold(g) == IF g > 0 THEN 1 ELSE 0

\* one iteration of the per-sample loop: the state after it and what it did.
\* (Intermediate values are bound through singleton sets, here and below, so
\* that each is computed once.)
Sample(s, g, sustainLevel) ==
    CHOOSE r \in
        { [next |-> p.post,
           did |-> [gate |-> g, pre |-> s.state, preOut |-> s.output,
                    preRC |-> s.isReleaseCompleted,
                    gated |-> p.gated.state, gatedOut |-> p.gated.output,
                    gatedRC |-> p.gated.isReleaseCompleted,
                    value |-> Recurrence(p.gated),
                    post |-> p.post.state, postOut |-> p.post.output,
                    postRC |-> p.post.isReleaseCompleted, blockHigh |-> g > 0,
                    level |-> sustainLevel]]
          : p \in { [gated |-> x, post |-> processEnv(x, sustainLevel)]
                    : x \in {GateStep(s, g)} } } : TRUE

\* no sample processed yet
NoSample ==
    [gate |-> 0, pre |-> env_idle, preOut |-> 0, preRC |-> TRUE,
     gated |-> env_idle, gatedOut |-> 0, gatedRC |-> TRUE, value |-> 0,
     post |-> env_idle, postOut |-> 0, postRC |-> TRUE, blockHigh |-> FALSE,
     level |-> 0]

\* the per-sample loop over the thresholded gate array; blockHigh tells
\* whether a sample of the block so far had a high gate
RECURSIVE RunSamples(_, _, _, _, _)
RunSamples(s, gates, sustainLevel, did, high) ==
    IF gates = <<>> THEN [s |-> s, did |-> did]
    ELSE CHOOSE out \in
             { RunSamples(r.next, Tail(gates), sustainLevel,
                          [r.did EXCEPT !.blockHigh = high \/ Head(gates) > 0],
                          high \/ Head(gates) > 0)
               : r \in {Sample(s, Head(gates), sustainLevel)} } : TRUE

----------------------------------------------------------------------------
(* MoogFilterNode: model A is the transistor ladder with V, dV, tV; model B *)
(* is the discretized ladder with in1..in4, out1..out4.                     *)

\* how many frames a behaviour runs through the filter loop
MaxFilterFrames == 2
\* how many parameter changes a behaviour makes on the filter
MaxFilterSettingChanges == 2
\* AudioNode::ProcessingSizeInFrames, the size the scratch arrays are
\* constructed with, scaled down
ProcessingSizeInFrames == 1

Zero4 == <<0, 0, 0, 0>>

\* M_PI, 2.0 * VT and 4.0 * M_PI * VT with VT = 0.312
MoogPi == 31416
TwoVT == 6240
FourPiVT == 39207

\* tanh at 0, 0.25, .. 3.0
TanhTable ==
    <<0, 2449, 4621, 6351, 7616, 8483, 9051, 9414, 9640, 9780, 9866, 9919, 9951>>

\* tanh, interpolated between the table's points and flat beyond 3.0
Tanh(z) ==
    LET a == IF z < 0 THEN -z ELSE z
        c == IF a >= 3 * One THEN 3 * One ELSE a
        k == c \div (One \div 4)
        lo == TanhTable[k + 1]
        hi == IF k + 2 <= Len(TanhTable) THEN TanhTable[k + 2] ELSE lo
        t == lo + ((hi - lo) * (c % (One \div 4))) \div (One \div 4)
    IN IF z < 0 THEN -t ELSE t

\* tanh(v / (2.0 * VT))
TanhOver2VT(v) ==
    LET bound == 3 * TwoVT
        c == IF v > bound THEN bound ELSE IF v < -bound THEN -bound ELSE v
    IN Tanh((c * One) \div TwoVT)

\* the parameter values a new node holds: cutoff 20000 Hz (scaled like the
\* sample rate), resonance 0 and drive 1 in model A; cutoff 1 and resonance 1
\* in model B, which has no drive
MoogParams(model) ==
    IF model = "A"
    THEN [cutoff |-> (20000 * One) \div 6000, resonance |-> 0, drive |-> One,
          driveSampleAccurate |-> FALSE]
    ELSE [cutoff |-> One, resonance |-> One, drive |-> One,
          driveSampleAccurate |-> FALSE]

\* values the client sets the parameters to
MoogCutoffs(model) == IF model = "A" THEN {(20000 * One) \div 6000, One} ELSE {One, 0}
MoogResonances == {0, One}
MoogDrives == {One, 2 * One}
\* the value of every sample of an audio-rate signal connected to drive
MoogDriveSignal == 3 * One

\* MoogFilterNode(ac)
MoogFilterNode(model) ==
    [model |-> model, V |-> Zero4, dV |-> Zero4, tV |-> Zero4,
     in |-> Zero4, out |-> Zero4,
     cutoffSize |-> ProcessingSizeInFrames,
     resonanceSize |-> ProcessingSizeInFrames,
     drives |-> [i \in 1..ProcessingSizeInFrames |-> 0],
     frames |-> 0]

\* reset() that leaves tV and out4 as they are
MoogResetPartial(m) ==
    IF m.model = "A" THEN [m EXCEPT !.V = Zero4, !.dV = Zero4]
    ELSE [m EXCEPT !.in = Zero4, !.out = <<0, 0, 0, m.out[4]>>]

\* MoogFilterNode::reset
MoogResetFilter(m) ==
    IF m.model = "A" THEN [m EXCEPT !.V = Zero4, !.dV = Zero4, !.tV = Zero4]
    ELSE [m EXCEPT !.in = Zero4, !.out = Zero4]

\* the state variables of the filter
MoogHistory(m) == <<m.V, m.dV, m.tV, m.in, m.out>>

\* one iteration of model A's loop
LadderStepA(m, sr, cutoff, reso, drive, src) ==
    LET x == Mul(MoogPi, cutoff) \div sr
        g == Mul(Mul(FourPiVT, cutoff), ((One - x) * One) \div (One + x))
        dV0 == -Mul(g, TanhOver2VT(Mul(drive, src) + Mul(reso, m.V[4])) + m.tV[1])
        V0 == m.V[1] + (dV0 + m.dV[1]) \div (2 * sr)
        tV0 == TanhOver2VT(V0)
        dV1 == Mul(g, tV0 - m.tV[2])
        V1 == m.V[2] + (dV1 + m.dV[2]) \div (2 * sr)
        tV1 == TanhOver2VT(V1)
        dV2 == Mul(g, tV1 - m.tV[3])
        V2 == m.V[3] + (dV2 + m.dV[3]) \div (2 * sr)
        tV2 == TanhOver2VT(V2)
        dV3 == Mul(g, tV2 - m.tV[4])
        V3 == m.V[4] + (dV3 + m.dV[4]) \div (2 * sr)
        tV3 == TanhOver2VT(V3)
    IN [m EXCEPT !.V = <<V0, V1, V2, V3>>,
                 !.dV = <<dV0, dV1, dV2, dV3>>,
                 !.tV = <<tV0, tV1, tV2, tV3>>]

\* one iteration of model B's loop
LadderStepB(m, fc, res, src) ==
    LET f == Mul(fc, 11600)
        ff == Mul(f, f)
        fb == Mul(res, One - Mul(1500, ff))
        input == Mul(src - Mul(m.out[4], fb), Mul(3501, Mul(ff, ff)))
        out1 == input + Mul(3000, m.in[1]) + Mul(One - f, m.out[1])
        out2 == out1 + Mul(3000, m.in[2]) + Mul(One - f, m.out[2])
        out3 == out2 + Mul(3000, m.in[3]) + Mul(One - f, m.out[3])
        out4 == out3 + Mul(3000, m.in[4]) + Mul(One - f, m.out[4])
    IN [m EXCEPT !.in = <<input, out1, out2, out3>>,
                 !.out = <<out1, out2, out3, out4>>]

\* the loop over the frames i = offset .. offset + count - 1: cutoffs[i],
\* resos[i], source[i] and, in model A, drives[i] are read at index i; a
\* read past the end of the drive array finds whatever lies there
RECURSIVE LadderLoop(_, _, _, _, _, _, _, _)
LadderLoop(m, sr, i, end, cutoff, reso, source, beyond) ==
    IF i >= end THEN m
    ELSE CHOOSE r \in
             { LadderLoop(next, sr, i + 1, end, cutoff, reso, source, beyond)
               : next \in { IF m.model = "A"
                            THEN LadderStepA(m, sr, cutoff, reso,
                                             IF i + 1 <= Len(m.drives)
                                             THEN m.drives[i + 1] ELSE beyond,
                                             source[i + 1])
                            ELSE LadderStepB(m, cutoff, reso, source[i + 1]) } } : TRUE

----------------------------------------------------------------------------
(* WaveTableOscillatorNode and the WaveTableOsc voices it drives *)

\* how many frames a behaviour renders from the oscillator
MaxOscFrames == 2
\* how many setting changes a behaviour makes on the oscillator
MaxOscSettingChanges == 2

\* WaveTableOsc(type): a voice starts at phase 0
WaveTableOsc(type) == [phase |-> 0, type |-> type]

\* WaveTableOsc::UpdatePhase(offset): advance by the normalized frequency
\* and wrap into [0, 1)
UpdatePhase(osc, normalizedFrequency, offset) ==
    [osc EXCEPT !.phase = (@ + normalizedFrequency + offset) % One]

\* the settings and parameter values the constructor writes: type SINE,
\* unisonCount 0, unisonSpread 0, frequency 440 Hz (scaled like the sample
\* rate), detune 0, phaseMod 0, phaseModDepth 0
WaveTableSettings ==
    [type |-> "SINE", unisonCount |-> 0, unisonSpread |-> 0,
     frequency |-> (440 * One) \div 6000, detune |-> 0,
     phaseMod |-> 0, phaseModDepth |-> 0]

WaveTableTypes == {"SINE", "SQUARE"}
UnisonCounts == 0..3
\* unison spreads, in cents
UnisonSpreads == {0, 100}

\* WaveTableOscillatorNode(ac)
WaveTableOscillatorNode ==
    [waveOsc |-> WaveTableOsc("SINE"), cachedType |-> "SINE",
     unisonOscillators |-> <<>>, frames |-> 0]

\* WaveTableOscillatorNode::update: the voices are rebuilt when the setting
\* differs from their number (clear, resize and one make_shared per voice,
\* after a line written to std::cout), then every voice is given the type
update(w, set) ==
    LET desired == set.unisonCount
        actual == Len(w.unisonOscillators)
        rebuilt == IF desired # actual
                   THEN [i \in 1..desired |-> WaveTableOsc(set.type)]
                   ELSE w.unisonOscillators
    IN [w |-> [w EXCEPT !.unisonOscillators =
                   [i \in 1..Len(rebuilt) |-> [rebuilt[i] EXCEPT !.type = set.type]]],
        allocs |-> IF desired # actual
                   THEN actual + (IF desired > 0 THEN desired + 1 ELSE 0)
                   ELSE 0,
        io |-> IF desired # actual /\ desired > 0 THEN 1 ELSE 0]

\* fastexp2(cents / 1200), to first order
DetuneRatio(cents) == One + (cents * 5776) \div 10000

\* (frequency * 2^(cents / 1200)) / sample_rate
NormalizedFrequency(frequency, cents, sr) == Mul(frequency, DetuneRatio(cents)) \div sr

\* one frame of RenderSamples / RenderSamplesMinusOffset: the single
\* oscillator is read and its phase advanced with phaseMod * phaseModDepth
RenderFrame(w, set, sr) ==
    [w EXCEPT !.waveOsc = UpdatePhase(@, NormalizedFrequency(set.frequency, set.detune, sr),
                                      Mul(set.phaseMod, set.phaseModDepth))]

\* RenderSamplesWithUnison advancing the first voice only
RenderFrameWithUnisonFirstOnly(w, set, sr) ==
    [w EXCEPT !.unisonOscillators =
        [u \in 1..Len(@) |->
            IF u = 1
            THEN UpdatePhase(@[u], NormalizedFrequency(set.frequency,
                                       set.detune - (set.unisonSpread \div 2), sr), 0)
            ELSE @[u]]]

\* one frame of RenderSamplesWithUnison: every voice is read and advanced
\* once, voice u detuned by -spread / 2 + u * spread / (N - 1)
RenderFrameWithUnison(w, set, sr) ==
    LET N == Len(w.unisonOscillators)
        step == IF N > 1 THEN set.unisonSpread \div (N - 1) ELSE 0
        detuneBase == -(set.unisonSpread \div 2)
    IN [w EXCEPT !.unisonOscillators =
            [u \in 1..N |->
                UpdatePhase(@[u],
                            NormalizedFrequency(set.frequency,
                                                set.detune + detuneBase + (u - 1) * step,
                                                sr),
                            0)]]

\* a dispatch that takes the unison path for one voice as well
UsesUnisonFromOne(set) == set.unisonCount >= 1

\* the dispatch on m_unisonCount: the unison path is taken for more than one
\* voice
UsesUnison(set) == set.unisonCount > 1

\* the render loop over count frames
RECURSIVE RenderLoop(_, _, _, _)
RenderLoop(w, set, sr, count) ==
    IF count = 0 THEN w
    ELSE CHOOSE r \in
             { RenderLoop(next, set, sr, count - 1)
               : next \in { IF UsesUnison(set)
                            THEN RenderFrameWithUnison(w, set, sr)
                            ELSE RenderFrame(w, set, sr) } } : TRUE

\* the sample a frame writes, as the reads it is made of: by which
\* oscillator (0: m_waveOsc, u: voice u - 1 of m_unisonOscillators), at which
\* phase, of which type, with which detune in cents and which normalized
\* frequency, and the gain the sum of the reads is multiplied by
FrameOutput(w, set, sr) ==
    IF UsesUnison(set)
    THEN LET N == Len(w.unisonOscillators)
             step == IF N > 1 THEN set.unisonSpread \div (N - 1) ELSE 0
             detuneBase == -(set.unisonSpread \div 2)
         IN [gain |-> One \div N,
             reads |-> [u \in 1..N |->
                 [osc |-> u,
                  phase |-> w.unisonOscillators[u].phase,
                  type |-> w.unisonOscillators[u].type,
                  cents |-> set.detune + detuneBase + (u - 1) * step,
                  step |-> NormalizedFrequency(set.frequency,
                               set.detune + detuneBase + (u - 1) * step, sr)]]]
    ELSE [gain |-> One,
          reads |-> <<[osc |-> 0,
                       phase |-> w.waveOsc.phase,
                       type |-> w.waveOsc.type,
                       cents |-> set.detune,
                       step |-> NormalizedFrequency(set.frequency, set.detune, sr)]>>]

\* the samples the render loop writes, frame by frame
RECURSIVE RenderOutputs(_, _, _, _)
RenderOutputs(w, set, sr, count) ==
    IF count = 0 THEN <<>>
    ELSE CHOOSE r \in
             { <<FrameOutput(w, set, sr)>> \o RenderOutputs(next, set, sr, count - 1)
               : next \in { RenderLoop(w, set, sr, 1) } } : TRUE

----------------------------------------------------------------------------
(* PolyBlepImpl: the phase of the PolyBLEP oscillator *)

\* how many phase advances and syncs a behaviour makes
MaxBlepSteps == 2

\* a product of two fixed-point values of which the second may be as large
\* as 101.0
MulWide(a, b) == (a * (b \div 100)) \div 100

\* static_cast<int64_t>(x) | 0: the integer part, rounded toward zero
bitwise_or_zero(x) == IF x >= 0 THEN x \div One ELSE -((-x) \div One)

\* PolyBlepImpl(sampleRate): TRIANGLE, setFrequency(440.0), pulse width 0.5,
\* phaseMod 0, phaseModDepth 0, t 0
PolyBlepImpl(sr) ==
    [t |-> 0, freqInSecondsPerSample |-> ((440 * One) \div 6000) \div sr,
     phaseMod |-> 0, phaseModDepth |-> 0, pulseWidth |-> One \div 2,
     type |-> "TRIANGLE", divisors |-> <<>>,
     op |-> "construct", steps |-> 0]

\* the frequencies the node hands to setFrequency: 0 Hz, 440 Hz and
\* 100000 Hz, the ends and the default of the parameter's range, scaled
BlepFrequencies == {0, (440 * One) \div 6000, (100000 * One) \div 6000}
\* phaseMod: the ends and the default of [-1, 1]
BlepPhaseMods == {-One, 0, One}
\* phaseModDepth: 0, 1 and 100 of [0, 100]
BlepPhaseModDepths == {0, One, 100 * One}
\* the phases handed to syncToPhase
BlepSyncPhases == {-2 * One, -One, -(One \div 2), 0, One \div 2, One, One + One \div 2}

\* pulseWidth: the ends and the middle of [0, 1]
BlepPulseWidths == {0, One \div 2, One}
\* the waveform of the constructor and the three that divide by a term of
\* the pulse width
BlepWaveforms ==
    {"TRIANGLE", "MODIFIED_TRIANGLE", "TRIANGULAR_PULSE", "TRAPEZOID_VARIABLE"}

\* x - bitwise_or_zero(x), the wrap the shapes apply to a shifted phase
Wrap(x) == x - bitwise_or_zero(x) * One

\* std::fmax(0.0001, std::fmin(0.9999, pulseWidth)) and std::fmin(0.9999, pulseWidth)
ClampBoth(pw) == IF pw > One - 1 THEN One - 1 ELSE IF pw < 1 THEN 1 ELSE pw
ClampAbove(pw) == IF pw > One - 1 THEN One - 1 ELSE pw

\* the divisors tri2 evaluates, in order: the one of the branch taken for
\* y = 2t, then pulseWidth - pulseWidth^2
tri2Divisors(b) ==
    LET pulseWidth == ClampBoth(b.pulseWidth)
        y == 2 * b.t
    IN <<IF y >= 2 * One - pulseWidth THEN pulseWidth
         ELSE IF y >= pulseWidth THEN One - pulseWidth
         ELSE pulseWidth,
         pulseWidth - Mul(pulseWidth, pulseWidth)>>

\* the divisors trip evaluates: the stored pulseWidth, when t1 is below it
\* and when it is positive
tripDivisors(b) ==
    LET t1 == Wrap(b.t + (3 * One) \div 4 + b.pulseWidth \div 2)
    IN (IF t1 >= b.pulseWidth THEN <<>> ELSE <<b.pulseWidth>>)
       \o (IF b.pulseWidth > 0 THEN <<b.pulseWidth>> ELSE <<>>)

\* the divisor of trap2's scale
trap2Divisors(b) == <<One - ClampAbove(b.pulseWidth)>>

\* PolyBlepImpl::get, as the divisors the shape of the current type
\* evaluates that are terms of the pulse width
get(b) ==
    [b EXCEPT !.divisors = CASE b.type = "MODIFIED_TRIANGLE" -> tri2Divisors(b)
                             [] b.type = "TRIANGULAR_PULSE" -> tripDivisors(b)
                             [] b.type = "TRAPEZOID_VARIABLE" -> trap2Divisors(b)
                             [] OTHER -> <<>>,
              !.op = "get"]

\* PolyBlepImpl::incrementPhase
incrementPhase(b) ==
    LET mod == One + MulWide(b.phaseMod, b.phaseModDepth)
        t1 == b.t + MulWide(b.freqInSecondsPerSample, mod)
    IN [b EXCEPT !.t = t1 - bitwise_or_zero(t1) * One,
                 !.op = "incrementPhase", !.steps = @ + 1]

\* PolyBlepImpl::syncToPhase
syncToPhase(b, phase) ==
    [b EXCEPT !.t = IF phase >= 0
                    THEN phase - bitwise_or_zero(phase) * One
                    ELSE phase + One - bitwise_or_zero(phase) * One,
              !.op = "syncToPhase", !.steps = @ + 1]

----------------------------------------------------------------------------
(* WaveUtils: fillTables and fillTables2 *)

\* numSamples is 2^k for k up to MaxLogSamples
MaxLogSamples == 3

\* const double minVal = 0.000001, below the resolution of the fixed point:
\* a bin is negligible when |re| + |im| is 0
minVal == 1

RECURSIVE Pow2(_)
Pow2(k) == IF k = 0 THEN 1 ELSE 2 * Pow2(k - 1)

Abs(x) == IF x < 0 THEN -x ELSE x

\* the spectra handed in: every harmonic below Nyquist present (1.0, mirrored
\* with the opposite sign as sawOsc does) or absent, and any of 0 and 1.0 in
\* the real and imaginary DC and Nyquist bins
Spectra(N) ==
    { [re |-> [i \in 0..(N - 1) |->
                  IF i = 0 THEN dc[1]
                  ELSE IF i = N \div 2 THEN ny[1]
                  ELSE IF i < N \div 2 THEN (IF i \in hs THEN One ELSE 0)
                  ELSE (IF (N - i) \in hs THEN -One ELSE 0)],
       im |-> [i \in 0..(N - 1) |->
                  IF i = 0 THEN dc[2]
                  ELSE IF i = N \div 2 THEN ny[2]
                  ELSE 0]]
      : hs \in SUBSET (1..(N \div 2 - 1)),
        dc \in {0, One} \X {0, One},
        ny \in {0, One} \X {0, One} }

\* the (minTop, maxTop) pairs handed to fillTables2; maxTop 0 stands for
\* "not set"
TopBounds == {<<4000, 5000>>, <<5000, 5000>>, <<2500, 0>>}

\* zeroing of the DC bin alone
ZeroDC(f, N) == [f EXCEPT ![0] = 0]

\* freqWave[0] = 0.0; freqWave[numSamples >> 1] = 0.0
ZeroDCNyquist(f, N) == [f EXCEPT ![0] = 0, ![N \div 2] = 0]

\* while ((fabs(re[maxHarmonic]) + fabs(im[maxHarmonic]) < minVal) && maxHarmonic)
\*     --maxHarmonic;
RECURSIVE HighestHarmonic(_, _, _)
HighestHarmonic(re, im, maxHarmonic) ==
    IF Abs(re[maxHarmonic]) + Abs(im[maxHarmonic]) < minVal /\ maxHarmonic # 0
    THEN HighestHarmonic(re, im, maxHarmonic - 1)
    ELSE maxHarmonic

\* the array ar (or ai) handed to makeWaveTable: all zero but the harmonics
\* 1..maxHarmonic and their mirrors
TableSpectrum(f, N, maxHarmonic) ==
    [idx \in 0..(N - 1) |->
        IF (1 <= idx /\ idx <= maxHarmonic) \/ (1 <= N - idx /\ N - idx <= maxHarmonic)
        THEN f[idx] ELSE 0]

\* the table loop of fillTables dropping one harmonic per table
RECURSIVE OctaveTablesByOne(_, _, _, _, _)
OctaveTablesByOne(re, im, N, maxHarmonic, topFreq) ==
    IF maxHarmonic = 0 THEN <<>>
    ELSE <<[maxHarmonic |-> maxHarmonic, topFreq |-> topFreq,
            ar |-> TableSpectrum(re, N, maxHarmonic),
            ai |-> TableSpectrum(im, N, maxHarmonic)]>>
         \o OctaveTablesByOne(re, im, N, maxHarmonic - 1,
                              [topFreq EXCEPT !.num = 2 * @])

\* the table loop of fillTables: one table per octave; topFreq is the
\* fraction num / den, with den 0 when it came from a division by zero
RECURSIVE OctaveTables(_, _, _, _, _)
OctaveTables(re, im, N, maxHarmonic, topFreq) ==
    IF maxHarmonic = 0 THEN <<>>
    ELSE <<[maxHarmonic |-> maxHarmonic, topFreq |-> topFreq,
            ar |-> TableSpectrum(re, N, maxHarmonic),
            ai |-> TableSpectrum(im, N, maxHarmonic)]>>
         \o OctaveTables(re, im, N, maxHarmonic \div 2,
                         [topFreq EXCEPT !.num = 2 * @])

\* fillTables(mem, freqWaveRe, freqWaveIm, numSamples)
fillTables(freqWaveRe, freqWaveIm, numSamples) ==
    LET re == ZeroDCNyquist(freqWaveRe, numSamples)
        im == ZeroDCNyquist(freqWaveIm, numSamples)
        maxHarmonic == HighestHarmonic(re, im, numSamples \div 2)
        topFreq == [num |-> 2, den |-> 3 * maxHarmonic]
        built == OctaveTables(re, im, numSamples, maxHarmonic, topFreq)
    IN [fn |-> "fillTables", freqWaveRe |-> re, freqWaveIm |-> im,
        maxHarmonic |-> maxHarmonic, topFreq |-> topFreq,
        tables |-> built, numTables |-> Len(built),
        minTop |-> 0, maxTop |-> 0, status |-> "returned"]

\* the table loop of fillTables2.  maxHarmonic is unsigned: when no harmonic
\* is left (maxHarmonic 0 after the search) temp >= maxHarmonic holds and
\* maxHarmonic - 1 wraps to UINT_MAX; the next search then reads the spectrum
\* far outside the array, which ends the program at that read or at the
\* copy loop's first write outside ar (outcome ub)
RECURSIVE BoundedTables(_, _, _, _, _, _, _)
BoundedTables(re, im, N, start, minTop, maxTop, ub) ==
    IF start = 0 THEN [tables |-> <<>>, status |-> "returned"]
    ELSE LET maxHarmonic == HighestHarmonic(re, im, start)
             topFreq == [num |-> maxTop, den |-> maxHarmonic]
             table == [maxHarmonic |-> maxHarmonic, topFreq |-> topFreq,
                       ar |-> TableSpectrum(re, N, maxHarmonic),
                       ai |-> TableSpectrum(im, N, maxHarmonic)]
             temp == IF maxHarmonic = 0 THEN 0
                     ELSE (2 * minTop * maxHarmonic + maxTop) \div (2 * maxTop)
         IN IF temp >= maxHarmonic /\ maxHarmonic = 0
            THEN [tables |-> <<table>>, status |-> ub]
            ELSE LET rest == BoundedTables(re, im, N,
                                           IF temp >= maxHarmonic
                                           THEN maxHarmonic - 1 ELSE temp,
                                           minTop, maxTop, ub)
                 IN [tables |-> <<table>> \o rest.tables, status |-> rest.status]

\* where the program ends once maxHarmonic has wrapped
WrapOutcomes == {"fault at read", "fault at copy"}

\* fillTables2(mem, freqWaveRe, freqWaveIm, numSamples, minTop, maxTop)
fillTables2(freqWaveRe, freqWaveIm, numSamples, minTop, maxTopArg, ub) ==
    LET maxTop == IF maxTopArg = 0 THEN One - minTop ELSE maxTopArg
        re == ZeroDCNyquist(freqWaveRe, numSamples)
        im == ZeroDCNyquist(freqWaveIm, numSamples)
        built == BoundedTables(re, im, numSamples, numSamples \div 2,
                               minTop, maxTop, ub)
    IN [fn |-> "fillTables2", freqWaveRe |-> re, freqWaveIm |-> im,
        maxHarmonic |-> numSamples \div 2, topFreq |-> [num |-> maxTop, den |-> 1],
        tables |-> built.tables, numTables |-> Len(built.tables),
        minTop |-> minTop, maxTop |-> maxTop, status |-> built.status]

\* no spectrum handed in, nothing built
NoTables ==
    [numSamples |-> 0, input |-> [re |-> <<>>, im |-> <<>>],
     result |-> [fn |-> "none"]]

----------------------------------------------------------------------------
(* What a call did, as seen by the output bus and the allocator *)

\* op: the call; bufferSize, offset, count: its arguments; zeroed: the output
\* bus was zeroed; cleared: the silent flag was cleared; ran: the per-sample
\* loop ran; written: the frames of channel 0 it wrote; allocs: allocations
\* and releases; io: writes to a stream; changed: whether the filter's or the
\* oscillator's state differs from the one before the call; absent: the node
\* was not initialized, not connected or had an input bus without channels
\* when the call was made; samples: what the oscillator wrote, frame by
\* frame; set: the settings or parameter values the call read; fills: the
\* scratch arrays the call filled, each with its capacity at the fill and
\* the number of values written from its start; reads: the control arrays
\* read for each rendered frame, with the index of each read
NoCall ==
    [op |-> "construct", bufferSize |-> 0, offset |-> 0, count |-> 0,
     zeroed |-> FALSE, cleared |-> FALSE, ran |-> FALSE, written |-> {},
     allocs |-> 0, io |-> 0, changed |-> FALSE, absent |-> FALSE,
     samples |-> <<>>, set |-> WaveTableSettings, fills |-> {}, reads |-> <<>>]

Call(name) == [NoCall EXCEPT !.op = name]

----------------------------------------------------------------------------
(* The graph's lifecycle calls on a node *)

Connect(k) ==
    /\ ~connected
    /\ connected' = TRUE
    /\ inChannels' = k
    /\ UNCHANGED <<sampleRate, initialized, outChannels, call>>

Uninitialize ==
    /\ initialized
    /\ initialized' = FALSE
    /\ UNCHANGED <<sampleRate, connected, inChannels, outChannels, call>>

----------------------------------------------------------------------------
(* AnalogueADSRNode: settings, reset, process *)

\* m_attackTime's valueChanged callback
AdsrSetAttackTime(t) ==
    /\ nChanges < MaxSettingChanges
    /\ t # adsrSet.attackTime
    /\ LET c == calcCoef(t * adsr.cached_sample_rate, adsr.targetRatioA)
       IN adsr' = [adsr EXCEPT !.attackCoef = c,
                               !.attackBase = Mul(One + adsr.targetRatioA, One - c)]
    /\ adsrSet' = [adsrSet EXCEPT !.attackTime = t]
    /\ nChanges' = nChanges + 1
    /\ UNCHANGED <<nodeVars, last, call, moogVars, wtVars, utilVars>>

\* m_decayTime's valueChanged callback
AdsrSetDecayTime(t) ==
    /\ nChanges < MaxSettingChanges
    /\ t # adsrSet.decayTime
    /\ LET c == calcCoef(t * adsr.cached_sample_rate, adsr.targetRatioDR)
       IN adsr' = [adsr EXCEPT !.decayCoef = c,
                               !.decayBase = Mul(adsrSet.sustainLevel - adsr.targetRatioDR,
                                                 One - c)]
    /\ adsrSet' = [adsrSet EXCEPT !.decayTime = t]
    /\ nChanges' = nChanges + 1
    /\ UNCHANGED <<nodeVars, last, call, moogVars, wtVars, utilVars>>

\* m_releaseTime's valueChanged callback
AdsrSetReleaseTime(t) ==
    /\ nChanges < MaxSettingChanges
    /\ t # adsrSet.releaseTime
    /\ LET rate8 == IF adsr.mode = "ADS" THEN AdsReleaseRate * 8
                    ELSE t * adsr.cached_sample_rate
           c == calcCoef(rate8, adsr.targetRatioDR)
       IN adsr' = [adsr EXCEPT !.releaseCoef = c,
                               !.releaseBase = Mul(-adsr.targetRatioDR, One - c)]
    /\ adsrSet' = [adsrSet EXCEPT !.releaseTime = t]
    /\ nChanges' = nChanges + 1
    /\ UNCHANGED <<nodeVars, last, call, moogVars, wtVars, utilVars>>

\* m_sustainLevel's valueChanged callback
AdsrSetSustainLevel(level) ==
    /\ nChanges < MaxSettingChanges
    /\ level # adsrSet.sustainLevel
    /\ adsr' = [adsr EXCEPT !.decayBase = Mul(level - adsr.targetRatioDR,
                                              One - adsr.decayCoef)]
    /\ adsrSet' = [adsrSet EXCEPT !.sustainLevel = level]
    /\ nChanges' = nChanges + 1
    /\ UNCHANGED <<nodeVars, last, call, moogVars, wtVars, utilVars>>

\* gate()->setValue(v) by the client
AdsrSetGate(v) ==
    /\ v # adsrSet.gate
    /\ adsrSet' = [adsrSet EXCEPT !.gate = v]
    /\ UNCHANGED <<nodeVars, adsr, last, nChanges, call, moogVars, wtVars, utilVars>>

\* AnalogueADSRNode::reset; ADSRNodeImpl::reset is empty
AdsrReset ==
    /\ adsrSet' = [adsrSet EXCEPT !.gate = 0]
    /\ call' = Call("reset")
    /\ UNCHANGED <<nodeVars, adsr, last, nChanges, moogVars, wtVars, utilVars>>

\* the thresholded _gateArray of a block: raws are the values the gate's
\* inputs deliver when it has sample-accurate values
GateArray(n, sampleAccurate, raws) ==
    [i \in 1..n |-> IF sampleAccurate THEN Threshold(raws[i])
                    ELSE Threshold(adsrSet.gate)]

\* ADSRNodeImpl::process, entered with destination and source of chans channels
ImplProcess(n, sampleAccurate, raws) ==
    LET grow == n > adsr.gateArrayCapacity
        s1 == [adsr EXCEPT !.gateArrayCapacity = IF grow THEN n ELSE @,
                           !.cached_sample_rate = sampleRate]
    IN \E run \in {RunSamples(s1, GateArray(n, sampleAccurate, raws),
                               adsrSet.sustainLevel, last, FALSE)} :
       /\ adsr' = run.s
       /\ last' = run.did
       /\ call' = [Call("process") EXCEPT !.bufferSize = n, !.count = n,
                                          !.written = 0..(n - 1),
                                          !.allocs = IF grow THEN 1 ELSE 0]

\* AnalogueADSRNode::process
AdsrProcess(n, sampleAccurate, raws) ==
    /\ IF ~initialized \/ ~connected
       THEN /\ call' = [Call("process") EXCEPT !.bufferSize = n, !.count = n,
                                               !.zeroed = TRUE]
            /\ UNCHANGED <<adsr, last, outChannels>>
       ELSE /\ outChannels' = inChannels
            /\ IF inChannels = 0
               THEN /\ call' = [Call("process") EXCEPT !.bufferSize = n, !.count = n]
                    /\ UNCHANGED <<adsr, last>>
               ELSE ImplProcess(n, sampleAccurate, raws)
    /\ UNCHANGED <<sampleRate, initialized, connected, inChannels, adsrSet, nChanges,
                   moogVars, wtVars, utilVars>>

\* the render thread's call for a block of n frames
AdsrRenderN(n) ==
    \E sampleAccurate \in BOOLEAN :
        \E raws \in [1..n -> GateValues] :
            /\ (~sampleAccurate => \A i \in 1..n : raws[i] = -1)
            /\ AdsrProcess(n, sampleAccurate, raws)

AdsrRender == \E n \in 0..MaxBufferSize : AdsrRenderN(n)

AdsrSetting ==
    \/ \E t \in Times8 : AdsrSetAttackTime(t)
    \/ \E t \in Times8 : AdsrSetDecayTime(t)
    \/ \E t \in Times8 : AdsrSetReleaseTime(t)
    \/ \E level \in Levels : AdsrSetSustainLevel(level)
    \/ \E v \in {0, 1} : AdsrSetGate(v)

InitNode ==
    /\ sampleRate \in SampleRates
    /\ initialized = TRUE
    /\ connected = FALSE
    /\ inChannels = 0
    /\ outChannels = 1
    /\ nChanges = 0
    /\ call = NoCall

\* the envelope, the filter and the oscillator as constructed
AdsrConstructed ==
    /\ adsr = ADSRNodeImpl(sampleRate, "ADSR")
    /\ adsrSet = ConstructorSettings
    /\ last = NoSample

MoogConstructed ==
    /\ moog = MoogFilterNode("A")
    /\ moogSet = MoogParams("A")

WaveTableConstructed ==
    /\ wt = WaveTableOscillatorNode
    /\ wtSet = WaveTableSettings

PolyBlepConstructed == blep = PolyBlepImpl(sampleRate)

WaveTablesUnbuilt == tab = NoTables

InitADSR ==
    /\ InitNode
    /\ \E m \in {"ADSR", "ADS"} : adsr = ADSRNodeImpl(sampleRate, m)
    /\ adsrSet = ConstructorSettings
    /\ last = NoSample
    /\ MoogConstructed
    /\ WaveTableConstructed
    /\ PolyBlepConstructed
    /\ WaveTablesUnbuilt

\* the graph connects the node's input to a source of k channels
AdsrConnect ==
    (\E k \in 0..1 : Connect(k)) /\ UNCHANGED <<adsrVars, nChanges, moogVars, wtVars, utilVars>>

NextADSR ==
    \/ AdsrRender
    \/ AdsrSetting
    \/ AdsrReset
    \/ AdsrConnect

SpecADSR == InitADSR /\ [][NextADSR]_vars

\* The envelope under a render thread that keeps calling process with blocks
\* that are not empty; of the settings, the release time is the one changed.
NextFairADSR ==
    \/ AdsrRender
    \/ \E t \in Times8 : AdsrSetReleaseTime(t)
    \/ \E v \in {0, 1} : AdsrSetGate(v)
    \/ AdsrReset
    \/ AdsrConnect

FairADSR ==
    /\ InitADSR
    /\ [][NextFairADSR]_vars
    /\ WF_vars(\E n \in 1..MaxBufferSize : AdsrRenderN(n))

----------------------------------------------------------------------------
(* Properties of the ADSR envelope *)

AttackDecaySustain == {env_attack, env_decay, env_sustain}

\* C2: after reset() the envelope phase is idle with output 0 and
\* releaseCompleted true, as in a newly constructed instance.
C2_ResetRestoresEnvelope ==
    call.op = "reset" =>
        /\ adsr.state = env_idle
        /\ adsr.output = 0
        /\ adsr.isReleaseCompleted

\* C4: a positive gate sample met in idle or release makes the phase attack
\* in that sample, restarts the output from 0 and clears releaseCompleted; a
\* positive gate sample met in attack, decay or sustain changes neither the
\* phase nor the output before the recurrence runs.
C4_GateHigh ==
    last.gate > 0 =>
        IF last.pre \in AttackDecaySustain
        THEN /\ last.gated = last.pre
             /\ last.gatedOut = last.preOut
             /\ last.gatedRC = last.preRC
        ELSE /\ last.gated = env_attack
             /\ last.gatedOut = 0
             /\ last.gatedRC = FALSE

C4_Witness ==
    /\ last.gate > 0
    /\ last.pre = env_release
    /\ last.preOut > 0
    /\ last.gated = env_attack
    /\ last.gatedOut = 0

\* C5: a non-positive gate sample met in attack, decay, sustain or release
\* makes the phase release before the recurrence of that sample is evaluated
\* (so the release recurrence is the one evaluated); met in idle it leaves
\* phase, output and releaseCompleted unchanged.
C5_GateLow ==
    last.gate <= 0 =>
        IF last.pre = env_idle
        THEN /\ last.post = env_idle
             /\ last.postOut = last.preOut
             /\ last.postRC = last.preRC
        ELSE /\ last.gated = env_release
             /\ last.gatedOut = last.preOut
             /\ last.gatedRC = last.preRC

C5_Witness ==
    /\ last.gate <= 0
    /\ last.pre = env_attack
    /\ last.preOut > 0
    /\ last.gated = env_release

\* C6: in the release phase the sample whose recurrence value is <= 0 sets the
\* output to 0, the phase to idle and releaseCompleted to true; a sample whose
\* recurrence value is positive keeps the phase release and releaseCompleted
\* false.
C6_ReleaseClamp ==
    /\ last.gated = env_release =>
           IF last.value <= 0
           THEN /\ last.post = env_idle
                /\ last.postOut = 0
                /\ last.postRC = TRUE
           ELSE /\ last.post = env_release
                /\ last.postOut = last.value
                /\ last.postRC = FALSE
    /\ adsr.state = env_release => ~adsr.isReleaseCompleted

C6_Witness ==
    /\ last.pre = env_release
    /\ last.gated = env_release
    /\ last.preOut > 0
    /\ last.value <= 0
    /\ last.post = env_idle
    /\ adsr.isReleaseCompleted

EnvelopeDone ==
    /\ adsr.state = env_idle
    /\ adsr.output = 0
    /\ adsr.isReleaseCompleted

\* C7: a sample with a non-positive gate met in sustain or release never
\* raises the output, and once every gate sample of every later block is
\* non-positive (in particular from the sustain phase on) the envelope ends
\* idle with output 0 and releaseCompleted true and stays so.
C7_ReleaseEnds ==
    /\ []((last.gate <= 0 /\ last.pre \in {env_sustain, env_release})
            => last.postOut <= last.preOut)
    /\ (<>[](~last.blockHigh) => <>[]EnvelopeDone)

C7_Witness ==
    /\ last.gate <= 0
    /\ last.pre = env_sustain
    /\ last.post = env_release
    /\ last.postOut > 0
    /\ last.postOut < last.preOut

----------------------------------------------------------------------------
(* MoogFilterNode: parameter changes, reset and processMoogFilter *)

MoogSetCutoff(v) ==
    /\ nChanges < MaxFilterSettingChanges
    /\ v # moogSet.cutoff
    /\ moogSet' = [moogSet EXCEPT !.cutoff = v]
    /\ nChanges' = nChanges + 1
    /\ UNCHANGED <<nodeVars, moog, call, adsrVars, wtVars, utilVars>>

MoogSetResonance(v) ==
    /\ nChanges < MaxFilterSettingChanges
    /\ v # moogSet.resonance
    /\ moogSet' = [moogSet EXCEPT !.resonance = v]
    /\ nChanges' = nChanges + 1
    /\ UNCHANGED <<nodeVars, moog, call, adsrVars, wtVars, utilVars>>

\* model A only: the drive parameter
MoogSetDrive(v) ==
    /\ moog.model = "A"
    /\ nChanges < MaxFilterSettingChanges
    /\ v # moogSet.drive
    /\ moogSet' = [moogSet EXCEPT !.drive = v]
    /\ nChanges' = nChanges + 1
    /\ UNCHANGED <<nodeVars, moog, call, adsrVars, wtVars, utilVars>>

\* model A only: an audio-rate source is connected to the drive parameter
MoogDriveInput ==
    /\ moog.model = "A"
    /\ nChanges < MaxFilterSettingChanges
    /\ ~moogSet.driveSampleAccurate
    /\ moogSet' = [moogSet EXCEPT !.driveSampleAccurate = TRUE]
    /\ nChanges' = nChanges + 1
    /\ UNCHANGED <<nodeVars, moog, call, adsrVars, wtVars, utilVars>>

MoogSetting ==
    \/ \E v \in MoogCutoffs(moog.model) : MoogSetCutoff(v)
    \/ \E v \in MoogResonances : MoogSetResonance(v)
    \/ \E v \in MoogDrives : MoogSetDrive(v)
    \/ MoogDriveInput

\* MoogFilterNode::reset
MoogReset ==
    /\ \E m \in {MoogResetFilter(moog)} :
          /\ moog' = m
          /\ call' = [Call("reset") EXCEPT !.changed = MoogHistory(m) # MoogHistory(moog)]
    /\ UNCHANGED <<nodeVars, moogSet, nChanges, adsrVars, wtVars, utilVars>>

\* what model A's loop multiplies V[3] by: the resonance array, which the
\* drive branch overwrites with the drive when drive is not sample-accurate
MoogResos ==
    IF moog.model = "A" /\ ~moogSet.driveSampleAccurate
    THEN moogSet.drive ELSE moogSet.resonance

\* what the loop read and wrote, frame by frame: the input sample, the
\* values of drives[i] and resos[i], and the last stage's value written to
\* the output
LadderOutputs(m, sr, o, c, cutoff, reso, source, beyond) ==
    [k \in 1..c |->
        [input |-> source[o + k],
         drive |-> IF o + k <= Len(m.drives) THEN m.drives[o + k] ELSE beyond,
         reso |-> reso,
         output |-> IF m.model = "A"
                    THEN LadderLoop(m, sr, o, o + k, cutoff, reso, source, beyond).V[4]
                    ELSE LadderLoop(m, sr, o, o + k, cutoff, reso, source, beyond).out[4]]]

\* the fills of processMoogFilter, m being the filter after the two arrays
\* were grown: cutoffs and resos always, drives when the drive is
\* sample-accurate (the broadcast branch writes resos a second time)
MoogFills(m, n) ==
    { [array |-> "cutoff", capacity |-> m.cutoffSize, filled |-> n],
      [array |-> "resonance", capacity |-> m.resonanceSize, filled |-> n] }
    \cup (IF m.model = "A" /\ moogSet.driveSampleAccurate
          THEN { [array |-> "drive", capacity |-> Len(m.drives), filled |-> n] }
          ELSE {})

\* the early returns checked against the frame count only
MoogSkipsCountOnly(c) == c = 0

\* the early returns of processMoogFilter: nothing to render, node not
\* initialized, input not connected, input bus without channels
MoogSkips(c) == c = 0 \/ ~initialized \/ ~connected \/ inChannels = 0

\* MoogFilterNode::processMoogFilter(r, bufferSize, offset, count)
processMoogFilter(n, o, c, source, beyond) ==
    /\ IF MoogSkips(c)
       THEN /\ call' = [Call("process") EXCEPT
                           !.bufferSize = n, !.offset = o, !.count = c,
                           !.zeroed = TRUE,
                           !.absent = ~initialized \/ ~connected \/ inChannels = 0]
            /\ UNCHANGED <<moog, outChannels>>
       ELSE LET growC == n > moog.cutoffSize
                growR == n > moog.resonanceSize
                m1 == [moog EXCEPT
                          !.cutoffSize = IF growC THEN n ELSE @,
                          !.resonanceSize = IF growR THEN n ELSE @,
                          !.drives = IF moog.model = "A" /\ moogSet.driveSampleAccurate
                                     THEN [i \in 1..Len(@) |->
                                              IF i <= n THEN MoogDriveSignal ELSE @[i]]
                                     ELSE @,
                          !.frames = @ + c]
            IN \E m2 \in {LadderLoop(m1, sampleRate, o, o + c, moogSet.cutoff,
                                     MoogResos, source, beyond)} :
                  /\ moog' = m2
                  /\ outChannels' = inChannels
                  /\ call' = [Call("process") EXCEPT
                                 !.bufferSize = n, !.offset = o, !.count = c,
                                 !.cleared = TRUE, !.ran = TRUE,
                                 !.written = {o + i : i \in o..(o + c - 1)},
                                 !.allocs = (IF growC THEN 1 ELSE 0) + (IF growR THEN 1 ELSE 0),
                                 !.changed = MoogHistory(m2) # MoogHistory(moog),
                                 !.absent = ~initialized \/ ~connected \/ inChannels = 0,
                                 !.samples = LadderOutputs(m1, sampleRate, o, c,
                                                 moogSet.cutoff, MoogResos, source, beyond),
                                 !.set = moogSet,
                                 !.fills = MoogFills(m1, n)]
    /\ UNCHANGED <<sampleRate, initialized, connected, inChannels,
                   moogSet, nChanges, adsrVars, wtVars, utilVars>>

\* the values an input frame takes
MoogInputs == {0, One}

\* a block of the context's bufferSize frames of which count are rendered
\* from offset on; frames the loop does not read are 0, and a drive read past
\* the end of the drive array gives any value
MoogRender ==
    \E n \in {MaxBufferSize}, o \in 0..MaxBufferSize, c \in 0..MaxBufferSize :
       /\ o + c <= n
       /\ (initialized /\ connected /\ inChannels > 0) => moog.frames + c <= MaxFilterFrames
       /\ \E source \in [1..n -> MoogInputs], beyond \in MoogInputs :
             /\ \A j \in 1..n : (j <= o \/ j > o + c) => source[j] = 0
             /\ (moog.model = "B" \/ o + c <= Len(moog.drives)) => beyond = 0
             /\ processMoogFilter(n, o, c, source, beyond)

MoogConnect ==
    /\ \E k \in 0..1 : Connect(k)
    /\ UNCHANGED <<nChanges, adsrVars, moogVars, wtVars, utilVars>>

MoogUninitialize ==
    /\ Uninitialize
    /\ UNCHANGED <<nChanges, adsrVars, moogVars, wtVars, utilVars>>

InitMoog ==
    /\ InitNode
    /\ \E model \in {"A", "B"} :
          /\ moog = MoogFilterNode(model)
          /\ moogSet = MoogParams(model)
    /\ AdsrConstructed
    /\ WaveTableConstructed
    /\ PolyBlepConstructed
    /\ WaveTablesUnbuilt

NextMoog ==
    \/ MoogRender
    \/ MoogSetting
    \/ MoogReset
    \/ MoogConnect
    \/ MoogUninitialize

SpecMoog == InitMoog /\ [][NextMoog]_vars

(* Properties of the filter *)

\* C3: after MoogFilterNode::reset every state variable of the filter is
\* zero (V, dV, tV of model A; in1..in4, out1..out4 of model B), the state
\* equals the one right after construction, and a second reset changes
\* nothing
C3_ResetZeroes ==
    call.op = "reset" =>
        /\ \A k \in 1..5 : MoogHistory(moog)[k] = Zero4
        /\ MoogHistory(moog) = MoogHistory(MoogFilterNode(moog.model))
        /\ MoogResetFilter(moog) = moog

\* a reset that found a filter with history and cleared it
C3_Witness ==
    /\ call.op = "reset"
    /\ call.changed
    /\ moog.frames > 0

\* C8: a processMoogFilter call on a node that is not initialized, whose
\* input is not connected or whose input bus has no channels zeroes the
\* output bus, does not clear the silent flag and leaves the filter's state
\* as it was; the silent flag is cleared only by a call that ran the loop
C8_AbsentInput ==
    call.op = "process" =>
        /\ call.absent => (call.zeroed /\ ~call.cleared /\ ~call.ran /\ ~call.changed)
        /\ call.cleared => call.ran

\* a filter with history was asked for frames after it was uninitialized,
\* and zeroed its output
C8_Witness ==
    /\ call.op = "process"
    /\ call.count > 0
    /\ call.absent
    /\ call.zeroed
    /\ ~call.cleared
    /\ ~initialized
    /\ connected
    /\ inChannels > 0
    /\ \E k \in 1..5 : MoogHistory(moog)[k] # Zero4

\* C9: a processMoogFilter call that renders count frames from offset on
\* writes exactly the frames offset .. offset + count - 1 of channel 0 and
\* no frame at or beyond bufferSize
C9_WritesRegion ==
    (call.op = "process" /\ call.ran) =>
        /\ call.written = call.offset..(call.offset + call.count - 1)
        /\ \A i \in call.written : i < call.bufferSize

----------------------------------------------------------------------------
(* WaveTableOscillatorNode: setting changes, reset and processWavetable *)

WtSetUnisonCount(v) ==
    /\ call.op # "fault"
    /\ nChanges < MaxOscSettingChanges
    /\ v # wtSet.unisonCount
    /\ wtSet' = [wtSet EXCEPT !.unisonCount = v]
    /\ nChanges' = nChanges + 1
    /\ UNCHANGED <<nodeVars, wt, call, adsrVars, moogVars, utilVars>>

WtSetUnisonSpread(v) ==
    /\ call.op # "fault"
    /\ nChanges < MaxOscSettingChanges
    /\ v # wtSet.unisonSpread
    /\ wtSet' = [wtSet EXCEPT !.unisonSpread = v]
    /\ nChanges' = nChanges + 1
    /\ UNCHANGED <<nodeVars, wt, call, adsrVars, moogVars, utilVars>>

\* WaveTableOscillatorNode::setType
setType(type) ==
    /\ call.op # "fault"
    /\ nChanges < MaxOscSettingChanges
    /\ type # wtSet.type
    /\ wt' = [wt EXCEPT !.cachedType = type, !.waveOsc.type = type]
    /\ wtSet' = [wtSet EXCEPT !.type = type]
    /\ nChanges' = nChanges + 1
    /\ UNCHANGED <<nodeVars, call, adsrVars, moogVars, utilVars>>

WtSetting ==
    \/ \E v \in UnisonCounts : WtSetUnisonCount(v)
    \/ \E v \in UnisonSpreads : WtSetUnisonSpread(v)
    \/ \E type \in WaveTableTypes : setType(type)

\* WaveTableOscillatorNode::reset, whose body is empty
WtReset ==
    /\ call.op # "fault"
    /\ call' = Call("reset")
    /\ UNCHANGED <<nodeVars, wtVars, nChanges, adsrVars, moogVars, utilVars>>

\* what the oscillator keeps between calls
WtState(w) == <<w.waveOsc, w.cachedType, w.unisonOscillators>>

\* WaveTableOscillatorNode::processWavetable(r, bufferSize, offset, count).
\* The five scratch arrays keep their constructed size, so filling bufferSize
\* entries of them writes past their end when bufferSize is larger: the call
\* then either goes on as if the arrays were large enough or ends the program
\* the control arrays read for the k-th rendered frame (k from 0) of a
\* call with render offset o, each with the index it is read at: the
\* unison and minus-offset loops advance pointers from the start of the
\* arrays, RenderSamples indexes frequencies and detunes with i = o + k and
\* advances pointers for phaseMods and phaseModDepths
ControlReads(set, o, k) ==
    IF UsesUnison(set)
    THEN { [array |-> "frequency", index |-> k], [array |-> "detune", index |-> k] }
    ELSE IF set.type = "SQUARE"
    THEN { [array |-> a, index |-> k]
           : a \in {"frequency", "detune", "pulseWidth", "phaseMod", "phaseModDepth"} }
    ELSE { [array |-> "frequency", index |-> o + k],
           [array |-> "detune", index |-> o + k],
           [array |-> "phaseMod", index |-> k],
           [array |-> "phaseModDepth", index |-> k] }

\* the five fills of processWavetable: the arrays keep the size the
\* constructor gave them, and bufferSize values are written to each
WtFills(n) ==
    { [array |-> a, capacity |-> ProcessingSizeInFrames, filled |-> n]
      : a \in {"frequency", "detune", "pulseWidth", "phaseMod", "phaseModDepth"} }

processWavetable(n, o, c, fault) ==
    /\ call.op # "fault"
    /\ \E u \in {update(wt, wtSet)} :
          IF ~initialized \/ outChannels = 0 \/ c = 0
          THEN /\ wt' = u.w
               /\ call' = [Call("process") EXCEPT
                              !.bufferSize = n, !.offset = o, !.count = c,
                              !.zeroed = TRUE, !.allocs = u.allocs, !.io = u.io,
                              !.changed = WtState(u.w) # WtState(wt),
                              !.absent = ~initialized]
          ELSE IF fault
          THEN /\ wt' = u.w
               /\ call' = [Call("fault") EXCEPT
                              !.bufferSize = n, !.offset = o, !.count = c,
                              !.allocs = u.allocs, !.io = u.io,
                              !.fills = WtFills(n)]
          ELSE \E w2 \in {RenderLoop([u.w EXCEPT !.frames = @ + c],
                                     wtSet, sampleRate, c)} :
                  /\ wt' = w2
                  /\ call' = [Call("process") EXCEPT
                                 !.bufferSize = n, !.offset = o, !.count = c,
                                 !.cleared = TRUE, !.ran = TRUE,
                                 !.written = o..(o + c - 1),
                                 !.allocs = u.allocs, !.io = u.io,
                                 !.changed = WtState(w2) # WtState(wt),
                                 !.samples = RenderOutputs(u.w, wtSet, sampleRate, c),
                                 !.set = wtSet,
                                 !.fills = WtFills(n),
                                 !.reads = [k \in 1..c |-> ControlReads(wtSet, o, k - 1)]]
    /\ UNCHANGED <<nodeVars, wtSet, nChanges, adsrVars, moogVars, utilVars>>

\* WaveTableOscillatorNode::process: a block of the context's bufferSize
\* frames with the scheduler's render offset and length
WtRender ==
    \E n \in {ProcessingSizeInFrames, MaxBufferSize},
       o \in 0..MaxBufferSize, c \in 0..MaxBufferSize, fault \in BOOLEAN :
       /\ o + c <= n
       /\ initialized => wt.frames + c <= MaxOscFrames
       /\ fault => n > ProcessingSizeInFrames
       /\ processWavetable(n, o, c, fault)

WtUninitialize ==
    /\ call.op # "fault"
    /\ Uninitialize
    /\ UNCHANGED <<nChanges, adsrVars, moogVars, wtVars, utilVars>>

InitWT ==
    /\ InitNode
    /\ WaveTableConstructed
    /\ AdsrConstructed
    /\ MoogConstructed
    /\ PolyBlepConstructed
    /\ WaveTablesUnbuilt

NextWT ==
    \/ WtRender
    \/ WtSetting
    \/ WtReset
    \/ WtUninitialize

SpecWT == InitWT /\ [][NextWT]_vars

(* Properties of the oscillator *)

\* C1: a process call whose frame count is 0 zeroes the output and leaves
\* the component's internal state, the unison voice set included, unchanged
C1_ZeroLengthCall ==
    (call.op = "process" /\ call.count = 0) => (call.zeroed /\ ~call.changed)

\* C10: no block-processing call allocates or frees memory or performs I/O
C10_NoAllocationNoIO ==
    call.op = "process" => (call.allocs = 0 /\ call.io = 0)

----------------------------------------------------------------------------
(* PolyBlepImpl: what the node's loop calls for every frame *)

BlepSetFrequency(f) ==
    /\ f \div sampleRate # blep.freqInSecondsPerSample
    /\ blep' = [blep EXCEPT !.freqInSecondsPerSample = f \div sampleRate]
    /\ UNCHANGED <<nodeVars, adsrVars, moogVars, wtVars, tab, nChanges, call>>

BlepSetPhaseMod(val) ==
    /\ val # blep.phaseMod
    /\ blep' = [blep EXCEPT !.phaseMod = val]
    /\ UNCHANGED <<nodeVars, adsrVars, moogVars, wtVars, tab, nChanges, call>>

BlepSetPhaseModDepth(val) ==
    /\ val # blep.phaseModDepth
    /\ blep' = [blep EXCEPT !.phaseModDepth = val]
    /\ UNCHANGED <<nodeVars, adsrVars, moogVars, wtVars, tab, nChanges, call>>

BlepSetPulseWidth(pw) ==
    /\ pw # blep.pulseWidth
    /\ blep' = [blep EXCEPT !.pulseWidth = pw]
    /\ UNCHANGED <<nodeVars, adsrVars, moogVars, wtVars, tab, nChanges, call>>

BlepSetWaveform(waveform) ==
    /\ waveform # blep.type
    /\ blep' = [blep EXCEPT !.type = waveform]
    /\ UNCHANGED <<nodeVars, adsrVars, moogVars, wtVars, tab, nChanges, call>>

BlepGet ==
    /\ blep' = get(blep)
    /\ UNCHANGED <<nodeVars, adsrVars, moogVars, wtVars, tab, nChanges, call>>

BlepIncrementPhase ==
    /\ blep.steps < MaxBlepSteps
    /\ blep' = incrementPhase(blep)
    /\ UNCHANGED <<nodeVars, adsrVars, moogVars, wtVars, tab, nChanges, call>>

BlepSyncToPhase(phase) ==
    /\ blep.steps < MaxBlepSteps
    /\ blep' = syncToPhase(blep, phase)
    /\ UNCHANGED <<nodeVars, adsrVars, moogVars, wtVars, tab, nChanges, call>>

InitBlep ==
    /\ InitNode
    /\ PolyBlepConstructed
    /\ WaveTablesUnbuilt
    /\ AdsrConstructed
    /\ MoogConstructed
    /\ WaveTableConstructed

NextBlep ==
    \/ \E f \in BlepFrequencies : BlepSetFrequency(f)
    \/ \E val \in BlepPhaseMods : BlepSetPhaseMod(val)
    \/ \E val \in BlepPhaseModDepths : BlepSetPhaseModDepth(val)
    \/ \E pw \in BlepPulseWidths : BlepSetPulseWidth(pw)
    \/ \E waveform \in BlepWaveforms : BlepSetWaveform(waveform)
    \/ BlepGet
    \/ BlepIncrementPhase
    \/ \E phase \in BlepSyncPhases : BlepSyncToPhase(phase)

SpecBlep == InitBlep /\ [][NextBlep]_vars

\* C11: after every incrementPhase and every syncToPhase the stored phase t
\* satisfies 0 <= t < 1
C11_PhaseInUnitInterval ==
    blep.op \in {"incrementPhase", "syncToPhase"} => (0 <= blep.t /\ blep.t < One)

(* Properties of the oscillator's render paths *)

\* C12: with unisonCount 1 the oscillator takes the same non-unison path as
\* with unisonCount 0 and, from the same state of the single oscillator,
\* writes the same samples and leaves that oscillator in the same state; the
\* voice allocated for count 1 is not read
C12_OneVoiceIsNoUnison ==
    \A c \in 1..MaxBufferSize :
        \E set0 \in {[wtSet EXCEPT !.unisonCount = 0]},
           set1 \in {[wtSet EXCEPT !.unisonCount = 1]} :
           \E w0 \in {update(wt, set0).w}, w1 \in {update(wt, set1).w} :
              /\ ~UsesUnison(set0)
              /\ ~UsesUnison(set1)
              /\ Len(w1.unisonOscillators) = 1
              /\ RenderOutputs(w1, set1, sampleRate, c)
                    = RenderOutputs(w0, set0, sampleRate, c)
              /\ RenderLoop(w1, set1, sampleRate, c).waveOsc
                    = RenderLoop(w0, set0, sampleRate, c).waveOsc
              /\ RenderLoop(w1, set1, sampleRate, c).unisonOscillators
                    = w1.unisonOscillators

\* a block rendered with unisonCount 1 after the single oscillator had
\* already advanced: one voice exists and the sample was read elsewhere
C12_Witness ==
    /\ call.op = "process"
    /\ call.ran
    /\ call.set.unisonCount = 1
    /\ wtSet.unisonCount = 1
    /\ Len(wt.unisonOscillators) = 1
    /\ call.samples[1].reads[1].osc = 0
    /\ call.samples[1].reads[1].phase > 0

\* C13: with unisonCount N > 1 and spread S every sample is 1/N times the sum
\* of exactly N reads, of the voices 0..N-1 in that order, voice u detuned by
\* the base detune - S/2 + u * S/(N-1), the first by -S/2 and the last by
\* +S/2, and every voice's phase advances exactly once per sample
C13_UnisonAverage ==
    (call.op = "process" /\ call.ran /\ call.set.unisonCount > 1) =>
        \E N \in {call.set.unisonCount}, S \in {call.set.unisonSpread} :
           /\ Len(call.samples) = call.count
           /\ Len(wt.unisonOscillators) = N
           /\ \A k \in 1..Len(call.samples) :
                 \E smp \in {call.samples[k]} :
                    /\ smp.gain = One \div N
                    /\ DOMAIN smp.reads = 1..N
                    /\ \A u \in 1..N :
                          /\ smp.reads[u].osc = u
                          /\ smp.reads[u].cents
                                = call.set.detune - (S \div 2) + (u - 1) * (S \div (N - 1))
                          /\ IF k < Len(call.samples)
                             THEN call.samples[k + 1].reads[u].phase
                                     = (smp.reads[u].phase + smp.reads[u].step) % One
                             ELSE wt.unisonOscillators[u].phase
                                     = (smp.reads[u].phase + smp.reads[u].step) % One
                    /\ smp.reads[1].cents = call.set.detune - (S \div 2)
                    /\ smp.reads[N].cents = call.set.detune + (S \div 2)

\* two frames rendered by three voices spread over 100 cents
C13_Witness ==
    /\ call.op = "process"
    /\ call.ran
    /\ call.count = 2
    /\ call.set.unisonCount = 3
    /\ call.set.unisonSpread = 100
    /\ call.samples[2].reads[3].cents > call.samples[2].reads[1].cents
    /\ call.samples[2].reads[2].phase > call.samples[1].reads[2].phase

----------------------------------------------------------------------------
(* WaveUtils: a spectrum is handed to one of the two builders *)

FillTables ==
    /\ tab.result.fn = "none"
    /\ tab' = [tab EXCEPT !.result =
                  fillTables(tab.input.re, tab.input.im, tab.numSamples)]
    /\ UNCHANGED <<nodeVars, adsrVars, moogVars, wtVars, blep, nChanges, call>>

FillTables2(minTop, maxTop, ub) ==
    /\ tab.result.fn = "none"
    /\ tab' = [tab EXCEPT !.result =
                  fillTables2(tab.input.re, tab.input.im, tab.numSamples,
                              minTop, maxTop, ub)]
    /\ UNCHANGED <<nodeVars, adsrVars, moogVars, wtVars, blep, nChanges, call>>

InitTables ==
    /\ InitNode
    /\ \E k \in 1..MaxLogSamples :
          \E sp \in Spectra(Pow2(k)) :
             tab = [numSamples |-> Pow2(k), input |-> sp, result |-> [fn |-> "none"]]
    /\ AdsrConstructed
    /\ MoogConstructed
    /\ WaveTableConstructed
    /\ PolyBlepConstructed

NextTables ==
    \/ FillTables
    \/ \E b \in TopBounds, ub \in WrapOutcomes : FillTables2(b[1], b[2], ub)

SpecTables == InitTables /\ [][NextTables]_vars

(* Properties of the table builders *)

\* C14: fillTables and fillTables2 set the DC bin and the Nyquist bin of the
\* spectrum handed in, real and imaginary, to zero, and every spectrum they
\* hand to makeWaveTable has zero DC and Nyquist bins; a spectrum with a
\* non-zero DC or Nyquist bin is built from, not rejected
C14_ZeroDCNyquist ==
    tab.result.fn \in {"fillTables", "fillTables2"} =>
        \E r \in {tab.result}, ny \in {tab.numSamples \div 2} :
           /\ r.freqWaveRe[0] = 0 /\ r.freqWaveIm[0] = 0
           /\ r.freqWaveRe[ny] = 0 /\ r.freqWaveIm[ny] = 0
           /\ \A k \in 1..Len(r.tables) :
                 /\ r.tables[k].ar[0] = 0 /\ r.tables[k].ai[0] = 0
                 /\ r.tables[k].ar[ny] = 0 /\ r.tables[k].ai[ny] = 0

\* fillTables2 built two tables or more from a spectrum whose DC and Nyquist
\* bins were all non-zero
C14_Witness ==
    /\ tab.result.fn = "fillTables2"
    /\ tab.result.status = "returned"
    /\ tab.result.numTables >= 2
    /\ tab.input.re[0] # 0 /\ tab.input.im[0] # 0
    /\ tab.input.re[tab.numSamples \div 2] # 0
    /\ tab.input.im[tab.numSamples \div 2] # 0

\* C15: fillTables returns a table count of at least 1 and computes the
\* initial topFreq without dividing by zero, also for a spectrum in which
\* every harmonic is below the floor
C15_AtLeastOneTable ==
    tab.result.fn = "fillTables" =>
        (tab.result.numTables >= 1 /\ tab.result.topFreq.den # 0)

\* C16: with 0 < minTop <= maxTop every table of fillTables2 has
\* maxHarmonic * topFreq <= maxTop, and the table after it has
\* maxHarmonic' * topFreq >= minTop
C16_HarmonicCoverage ==
    (tab.result.fn = "fillTables2" /\ 0 < tab.result.minTop
        /\ tab.result.minTop <= tab.result.maxTop) =>
        \E r \in {tab.result} :
           \A k \in 1..Len(r.tables) :
              /\ r.tables[k].topFreq.den # 0
              /\ r.tables[k].maxHarmonic * r.tables[k].topFreq.num
                    <= r.maxTop * r.tables[k].topFreq.den
              /\ k < Len(r.tables) =>
                    r.tables[k + 1].maxHarmonic * r.tables[k].topFreq.num
                       >= r.minTop * r.tables[k].topFreq.den

(***************************************************************************)
(* MoogFilterNode: what the ladder does to its input                       *)
(***************************************************************************)

\* C17: model B rendering for the first time since construction with
\* cutoff 0 and resonance 0 writes each input sample to the output, an
\* impulse included, and its eight history values stay within [-1, 1]
C17_ImpulsePassesThrough ==
    (call.op = "process" /\ call.ran /\ moog.model = "B"
        /\ moog.frames = call.count
        /\ call.set.cutoff = 0 /\ call.set.resonance = 0) =>
        /\ \A k \in 1..call.count :
              call.samples[k].output = call.samples[k].input
        /\ \A i \in 1..4 : Abs(moog.in[i]) <= One /\ Abs(moog.out[i]) <= One

\* C18: in every frame model A renders, the stage-0 derivative is computed
\* with the drive parameter's resolved value as the factor of the input and
\* the resonance parameter's resolved value as the factor of V[3]; the drive
\* resolves to its audio-rate signal when it is sample-accurate and to its
\* scalar otherwise
C18_DriveAndResonanceResolved ==
    (call.op = "process" /\ call.ran /\ moog.model = "A") =>
        \A k \in 1..call.count :
           /\ call.samples[k].drive = (IF call.set.driveSampleAccurate
                                       THEN MoogDriveSignal ELSE call.set.drive)
           /\ call.samples[k].reso = call.set.resonance

(***************************************************************************)
(* AnalogueADSRNode: coefficients and phase changes                        *)
(***************************************************************************)

\* C19: whenever a sample's recurrence was evaluated, the coefficients and
\* bases are the ones calcCoef gives for the current settings and the
\* context's sample rate: time * sampleRate with ratio 0.3 for the attack
\* and 0.001 for decay and release
C19_CoefficientsCurrent ==
    (call.op = "process" /\ call.written # {}
        /\ last.gated \in {env_attack, env_decay, env_release}) =>
        /\ adsr.attackCoef = calcCoef(adsrSet.attackTime * sampleRate, TargetRatioA)
        /\ adsr.decayCoef = calcCoef(adsrSet.decayTime * sampleRate, TargetRatioDR)
        /\ adsr.releaseCoef = calcCoef(adsrSet.releaseTime * sampleRate, TargetRatioDR)
        /\ adsr.attackBase = Mul(One + TargetRatioA, One - adsr.attackCoef)
        /\ adsr.decayBase = Mul(adsrSet.sustainLevel - TargetRatioDR,
                                One - adsr.decayCoef)
        /\ adsr.releaseBase = Mul(-TargetRatioDR, One - adsr.releaseCoef)

C21_AttackClamp ==
    /\ last.gated = env_attack =>
          IF last.value >= One
          THEN last.post = env_decay /\ last.postOut = One
          ELSE last.post = env_attack /\ last.postOut = last.value
    /\ last.post = env_attack => last.postOut < One
    /\ adsr.state = env_attack => adsr.output < One

\* a sample that continues an attack and reaches the clamp
C21_Witness ==
    /\ last.pre = env_attack
    /\ last.gated = env_attack
    /\ last.value > One
    /\ last.post = env_decay
    /\ last.postOut = One

C24_OctaveTables ==
    (tab.result.fn = "fillTables" /\ tab.result.maxHarmonic >= 1) =>
        \E r \in {tab.result} :
           /\ r.status = "returned"
           /\ Abs(r.freqWaveRe[r.maxHarmonic]) + Abs(r.freqWaveIm[r.maxHarmonic]) >= minVal
           /\ \A i \in (r.maxHarmonic + 1)..(tab.numSamples \div 2) :
                 Abs(r.freqWaveRe[i]) + Abs(r.freqWaveIm[i]) < minVal
           /\ r.numTables = Len(r.tables)
           /\ Pow2(r.numTables - 1) <= r.maxHarmonic
           /\ r.maxHarmonic < Pow2(r.numTables)
           /\ r.tables[1].maxHarmonic = r.maxHarmonic
           /\ r.tables[1].topFreq = [num |-> 2, den |-> 3 * r.maxHarmonic]
           /\ r.tables[r.numTables].maxHarmonic = 1
           /\ \A k \in 2..r.numTables :
                 /\ r.tables[k].maxHarmonic = r.tables[k - 1].maxHarmonic \div 2
                 /\ r.tables[k].topFreq.den = r.tables[k - 1].topFreq.den
                 /\ r.tables[k].topFreq.num = 2 * r.tables[k - 1].topFreq.num

\* a spectrum with highest harmonic 3, for which tables 3 and 1 are built
C24_Witness ==
    /\ tab.result.fn = "fillTables"
    /\ tab.result.maxHarmonic = 3
    /\ tab.result.numTables = 2
    /\ tab.result.tables[2].maxHarmonic = 1

(***************************************************************************)
(* PolyBlepImpl: the shapes that divide by a term of the pulse width       *)
(***************************************************************************)

\* C25: with the pulse width in [0, 1], no divisor that the modified
\* triangle, the triangular pulse or the variable trapezoid evaluates is 0,
\* at any phase the oscillator reaches
C25_NoDivisionByZero ==
    (blep.op = "get" /\ 0 <= blep.pulseWidth /\ blep.pulseWidth <= One) =>
        \A k \in 1..Len(blep.divisors) : blep.divisors[k] # 0

\* C26: fillTables2 returns for every spectrum and every pair of bounds,
\* with maxHarmonic decreasing from each table to the next and every table's
\* maxHarmonic an index of the spectrum
C26_BoundedTablesReturn ==
    tab.result.fn = "fillTables2" =>
        \E r \in {tab.result} :
           /\ r.status = "returned"
           /\ \A k \in 1..Len(r.tables) :
                 /\ r.tables[k].maxHarmonic >= 0
                 /\ r.tables[k].maxHarmonic < tab.numSamples
                 /\ k > 1 => r.tables[k].maxHarmonic < r.tables[k - 1].maxHarmonic

(***************************************************************************)
(* The per-sample control arrays of the nodes                              *)
(***************************************************************************)

\* C27: every scratch array a call fills with bufferSize values has a
\* capacity of at least bufferSize when it is filled
C27_FillsWithinCapacity ==
    \A f \in call.fills : f.filled <= f.capacity

\* C28: in every render path of the wavetable oscillator and for every
\* render offset, the control values read for one output frame are all
\* read at the same array index, the next frame reads every array at the
\* next index, and no index is bufferSize or more
C28_ControlsReadAtOneIndex ==
    (call.op = "process" /\ call.ran) =>
        \A k \in 1..Len(call.reads) :
           /\ \A a, b \in call.reads[k] : a.index = b.index
           /\ \A a \in call.reads[k] : a.index < call.bufferSize
           /\ k < Len(call.reads) =>
                 \A a \in call.reads[k], b \in call.reads[k + 1] :
                    a.array = b.array => b.index = a.index + 1

(***************************************************************************)
(* AnalogueADSRNode: isReleaseCompleted and the range of the envelope      *)
(***************************************************************************)

\* C29: between samples isReleaseCompleted is true exactly when the phase
\* is idle; a sample turns it false only by entering attack from idle and
\* turns it true only by reaching idle at the release clamp
C29_ReleaseCompletedIffIdle ==
    /\ adsr.isReleaseCompleted <=> adsr.state = env_idle
    /\ last.preRC <=> last.pre = env_idle
    /\ last.postRC <=> last.post = env_idle
    /\ (last.preRC /\ ~last.postRC) =>
          (last.pre = env_idle /\ last.gate > 0 /\ last.gated = env_attack)
    /\ (~last.preRC /\ last.postRC) =>
          (last.gated = env_release /\ last.post = env_idle /\ last.value <= 0)

\* a sample that finds the envelope in attack with the flag false, is
\* released by a low gate and reaches idle: the flag is true again
C29_Witness ==
    /\ last.pre = env_attack
    /\ ~last.preRC
    /\ last.gated = env_release
    /\ last.post = env_idle
    /\ last.postRC
    /\ adsr.isReleaseCompleted

\* C30: with the sustain level in [0, 1] and times that are not negative,
\* the value every sample returns is in [0, 1], and the output is 0
\* whenever the phase is idle
C30_EnvelopeInUnitRange ==
    /\ 0 <= last.postOut /\ last.postOut <= One
    /\ 0 <= adsr.output /\ adsr.output <= One
    /\ last.post = env_idle => last.postOut = 0
    /\ adsr.state = env_idle => adsr.output = 0

\* a decay sample whose recurrence value is below 0, after the sustain
\* level was set to 0: the value returned is the level, 0
C30_Witness ==
    /\ last.gated = env_decay
    /\ last.value < 0
    /\ last.level = 0
    /\ last.post = env_sustain
    /\ last.postOut = 0

============================================================================
